---- MODULE Spec2Model ----
(***************************************************************************)
(* The truck registry of main.go: a map from truck id to *Truck guarded by *)
(* one sync.RWMutex, and the four operations of FleetManager called by     *)
(* concurrent goroutines.                                                  *)
(*                                                                         *)
(* A Go string is modelled as the sequence of its characters, so that      *)
(* `id == ""` (the only test the code makes) and "whitespace-only" are     *)
(* different predicates.                                                   *)
(***************************************************************************)
EXTENDS Integers, Sequences, FiniteSets

\* Number of goroutines calling the registry concurrently.
NumProcs == 2

Procs == 1..NumProcs

\* The identifiers: "", " ", "t1", "t2". The goroutines of Spec, which call any
\* operation at any time, pass the first three.
EmptyString == << >>
Ids == { EmptyString, <<" ">>, <<"t", "1">>, <<"t", "2">> }
CallIds == { EmptyString, <<" ">>, <<"t", "1">> }
\* The cargo values callers pass: a negative one and two valid ones.
Cargos == { -1, 0, 1 }

\* errors.New values of main.go, and the nil error.
Nil == "nil"
ErrTruckNotFound == "truck not found"
ErrTruckExist == "truck already exists"
ErrInvalidCargo == "invalid cargo value"
ErrEmptyID == "truck ID cannot be empty"
Errors == { Nil, ErrTruckNotFound, ErrTruckExist, ErrInvalidCargo, ErrEmptyID }

\* type Truck struct { ID string; Cargo int }, and its zero value Truck{}.
Truck(i, c) == [ID |-> i, Cargo |-> c]
ZeroTruck == Truck(EmptyString, 0)

VARIABLES
    trucks,     \* tm.trucks: a function from the keys present to Truck records
    writer,     \* the goroutine that holds the RWMutex's writer mutex: it has
                \* announced itself and waits for the readers to leave, or it
                \* holds the RWMutex for writing; 0 if none
    readers,    \* the goroutines holding the RWMutex for reading
    pc,         \* where each goroutine is in the call it is making
    op,         \* the operation each goroutine is calling ("none" when idle)
    id,         \* the id argument of the call in progress
    cargo,      \* the cargo argument of the call in progress
    ret,        \* the error the call returns
    out,        \* the Truck value GetTruck returns
    lastWrite,  \* history: per id, what the last successful mutation left
    main        \* func main: the calls it makes in order, and how many of
                \* them it has made (no calls when main is not what runs)

vars == << trucks, writer, readers, pc, op, id, cargo, ret, out, lastWrite, main >>

\* The registry is called by goroutines other than func main.
NoMain == [calls |-> << >>, at |-> 0]

\* The values of the history variable: no successful AddTruck of the id yet,
\* or none since its last successful RemoveTruck; and cargo c passed by the
\* last successful AddTruck or UpdateTruckCargo of the id.
NoWrite == [present |-> FALSE, cargo |-> 0]
Wrote(c) == [present |-> TRUE, cargo |-> c]

----------------------------------------------------------------------------
(* The map operations of the code, as functions of the map.                *)

\* tm.trucks[i] = &Truck{...}
MapPut(t, i, v) == [k \in (DOMAIN t) \cup {i} |-> IF k = i THEN v ELSE t[k]]
\* delete(tm.trucks, i)
MapDelete(t, i) == [k \in (DOMAIN t) \ {i} |-> t[k]]

\* Faulty variants of AddTruckErr: the cargo check left out; the existence
\* check left out; the existence check made before the cargo check.
AddTruckErr_NoCargoCheck(t, i, c) ==
    IF i = EmptyString THEN ErrEmptyID
    ELSE IF i \in DOMAIN t THEN ErrTruckExist
    ELSE Nil
AddTruckErr_NoExistCheck(t, i, c) ==
    IF i = EmptyString THEN ErrEmptyID
    ELSE IF c < 0 THEN ErrInvalidCargo
    ELSE Nil
AddTruckErr_ExistFirst(t, i, c) ==
    IF i = EmptyString THEN ErrEmptyID
    ELSE IF i \in DOMAIN t THEN ErrTruckExist
    ELSE IF c < 0 THEN ErrInvalidCargo
    ELSE Nil

\* AddTruck, lines 49-60: the error AddTruck returns on map t.
AddTruckErr(t, i, c) ==
    IF i = EmptyString THEN ErrEmptyID
    ELSE IF c < 0 THEN ErrInvalidCargo
    ELSE IF i \in DOMAIN t THEN ErrTruckExist
    ELSE Nil

\* Faulty variant of AddTruckMap: the Cargo field of the new Truck left unset.
AddTruckMap_ZeroCargo(t, i, c) ==
    IF AddTruckErr(t, i, c) = Nil THEN MapPut(t, i, Truck(i, 0)) ELSE t

\* Faulty variants of AddTruckMap: the record is stored even when the id is
\* present; the map is replaced by one that holds the new record only.
AddTruckMap_Overwrite(t, i, c) ==
    IF i # EmptyString /\ c >= 0 THEN MapPut(t, i, Truck(i, c)) ELSE t
AddTruckMap_Replace(t, i, c) ==
    IF AddTruckErr(t, i, c) = Nil THEN [k \in {i} |-> Truck(i, c)] ELSE t

\* AddTruck, lines 64-67: the map after AddTruck.
AddTruckMap(t, i, c) ==
    IF AddTruckErr(t, i, c) = Nil THEN MapPut(t, i, Truck(i, c)) ELSE t

\* GetTruck, lines 82-87 (the id is known to be non-empty here).
GetTruckErr(t, i) == IF i \in DOMAIN t THEN Nil ELSE ErrTruckNotFound
GetTruckValue(t, i) == IF i \in DOMAIN t THEN t[i] ELSE ZeroTruck

\* Faulty variant of UpdateTruckCargoArgErr: the cargo checked before the id.
UpdateTruckCargoArgErr_CargoFirst(i, c) ==
    IF c < 0 THEN ErrInvalidCargo
    ELSE IF i = EmptyString THEN ErrEmptyID
    ELSE Nil

\* UpdateTruckCargo, lines 93-98: the checks made before the lock is taken.
UpdateTruckCargoArgErr(i, c) ==
    IF i = EmptyString THEN ErrEmptyID
    ELSE IF c < 0 THEN ErrInvalidCargo
    ELSE Nil

\* Faulty variants of UpdateTruckCargoMap: an absent id gets a record; the
\* cargo of every record is overwritten.
UpdateTruckCargoMap_Upsert(t, i, c) == MapPut(t, i, Truck(i, c))
UpdateTruckCargoMap_AllRecords(t, i, c) ==
    IF i \in DOMAIN t THEN [k \in DOMAIN t |-> Truck(t[k].ID, c)] ELSE t

\* UpdateTruckCargo, lines 104-110, under the lock.
UpdateTruckCargoErr(t, i) == IF i \in DOMAIN t THEN Nil ELSE ErrTruckNotFound
UpdateTruckCargoMap(t, i, c) ==
    IF i \in DOMAIN t THEN [t EXCEPT ![i].Cargo = c] ELSE t

\* Faulty variant of RemoveTruckErr: the id check left out.
RemoveTruckErr_NoIdCheck(t, i) == IF i \in DOMAIN t THEN Nil ELSE ErrTruckNotFound

\* RemoveTruck, lines 118-128.
RemoveTruckErr(t, i) ==
    IF i = EmptyString THEN ErrEmptyID
    ELSE IF i \in DOMAIN t THEN Nil
    ELSE ErrTruckNotFound
\* Faulty variant of RemoveTruckMap: the map is emptied.
RemoveTruckMap_Clear(t, i) ==
    IF RemoveTruckErr(t, i) = Nil THEN [k \in {} |-> ZeroTruck] ELSE t

RemoveTruckMap(t, i) ==
    IF RemoveTruckErr(t, i) = Nil THEN MapDelete(t, i) ELSE t

----------------------------------------------------------------------------
(* sync.RWMutex.                                                           *)

\* Faulty variant of CanLock: a writer mutex that admits a second writer.
CanLock_IgnoreWriter == TRUE

\* Lock() first takes the writer mutex, which one goroutine holds at a time,
\* and so announces a pending writer ...
CanLock == writer = 0
\* ... and then returns at once if no goroutine holds the RWMutex for
\* reading; otherwise the writer is blocked until the last of them leaves.
Drained == readers = {}

\* Faulty variant of CanRLock: a reader that does not look for a writer.
CanRLock_IgnoreWriter == TRUE

\* RLock() returns at once when no writer holds or has announced itself;
\* otherwise the reader is blocked until that writer's Unlock().
CanRLock == writer = 0

\* The place at which a blocked writer is when its Lock() has returned.
Granted(place) ==
    CASE place = "AddLockWait" -> "AddBody"
      [] place = "UpdLockWait" -> "UpdBody"
      [] place = "RemLockWait" -> "RemBody"
      [] OTHER -> place

\* Unlock() by goroutine p, which goes on to place next: it hands the RWMutex
\* to the readers blocked in RLock(), whose RLock() returns, and releases the
\* writer mutex.
Unlock(p, next) ==
    /\ writer' = 0
    /\ readers' = readers \cup { q \in Procs : pc[q] = "GetRWait" }
    /\ pc' = [q \in Procs |-> IF q = p THEN next
                              ELSE IF pc[q] = "GetRWait" THEN "GetRead"
                              ELSE pc[q]]

\* RUnlock() by goroutine p, which goes on to place next: the last reader to
\* leave hands the RWMutex to the writer blocked in Lock(), whose Lock()
\* returns.
RUnlock(p, next) ==
    /\ readers' = readers \ {p}
    /\ pc' = [q \in Procs |-> IF q = p THEN next
                              ELSE IF readers \ {p} = {} /\ writer = q
                                   THEN Granted(pc[q])
                              ELSE pc[q]]

\* The places of a call between its Lock()/RLock() and its deferred unlock.
WriterPcs == { "AddBody", "AddUnlock", "UpdBody", "UpdUnlock", "RemBody", "RemUnlock" }
ReaderPcs == { "GetRead", "GetRUnlock" }

\* Go's memory model: a map write races with any access by a goroutine that
\* is inside its critical section at the same time, and a map read races
\* with any such writer. A racing access has no defined outcome.
WriteRace(p) == \E q \in Procs \ {p} : pc[q] \in WriterPcs \cup ReaderPcs
ReadRace(p) == \E q \in Procs \ {p} : pc[q] \in WriterPcs

\* Every map a racing access may leave behind.
AnyTrucks ==
    UNION { { [k \in S |-> Truck(k, f[k])] : f \in [S -> Cargos] } : S \in SUBSET Ids }

----------------------------------------------------------------------------
(* The state after NewTruckManager(), with every goroutine idle.           *)

Init ==
    /\ trucks = [k \in {} |-> ZeroTruck]
    /\ writer = 0
    /\ readers = {}
    /\ pc = [p \in Procs |-> "idle"]
    /\ op = [p \in Procs |-> "none"]
    /\ id = [p \in Procs |-> EmptyString]
    /\ cargo = [p \in Procs |-> 0]
    /\ ret = [p \in Procs |-> Nil]
    /\ out = [p \in Procs |-> ZeroTruck]
    /\ lastWrite = [k \in Ids |-> NoWrite]
    /\ main = NoMain

\* A goroutine calls operation o with arguments (i, c) and reaches place start.
Invoke(p, o, i, c, start) ==
    /\ pc[p] = "idle"
    /\ pc' = [pc EXCEPT ![p] = start]
    /\ op' = [op EXCEPT ![p] = o]
    /\ id' = [id EXCEPT ![p] = i]
    /\ cargo' = [cargo EXCEPT ![p] = c]
    /\ UNCHANGED << trucks, writer, readers, ret, out, lastWrite >>

Goto(p, place) == pc' = [pc EXCEPT ![p] = place]

\* The call returns to its caller, which takes the result.
Leave(p) ==
    /\ op' = [op EXCEPT ![p] = "none"]
    /\ id' = [id EXCEPT ![p] = EmptyString]
    /\ cargo' = [cargo EXCEPT ![p] = 0]
    /\ ret' = [ret EXCEPT ![p] = Nil]
    /\ out' = [out EXCEPT ![p] = ZeroTruck]

\* ... and the goroutine is free to call again.
Finish(p) == pc' = [pc EXCEPT ![p] = "idle"] /\ Leave(p)

\* The history variable after a call of mutation o with arguments (i, c)
\* returned e: only a successful call is recorded.
Record(e, o, i, c) ==
    IF e = Nil
    THEN [lastWrite EXCEPT ![i] = IF o = "RemoveTruck" THEN NoWrite ELSE Wrote(c)]
    ELSE lastWrite

----------------------------------------------------------------------------
(* AddTruck                                                                *)

\* line 45: the call AddTruck(i, c)
AddTruckEnter(p, i, c) == Invoke(p, "AddTruck", i, c, "AddLock")

CallAddTruck(p) ==
    /\ \E i \in CallIds, c \in Cargos : AddTruckEnter(p, i, c)
    /\ UNCHANGED main

\* line 46: tm.Lock(), which takes the writer mutex and returns at once or
\* blocks until the readers have left
AddTruckLock(p) ==
    /\ pc[p] = "AddLock"
    /\ CanLock
    /\ writer' = p
    /\ Goto(p, IF Drained THEN "AddBody" ELSE "AddLockWait")
    /\ UNCHANGED << trucks, readers, op, id, cargo, ret, out, lastWrite, main >>

\* lines 49-69, under the lock
AddTruckBody(p) ==
    /\ pc[p] = "AddBody"
    /\ IF WriteRace(p)
       THEN /\ trucks' \in AnyTrucks
            /\ \E e \in Errors : ret' = [ret EXCEPT ![p] = e]
            /\ UNCHANGED lastWrite
       ELSE /\ trucks' = AddTruckMap(trucks, id[p], cargo[p])
            /\ ret' = [ret EXCEPT ![p] = AddTruckErr(trucks, id[p], cargo[p])]
            /\ lastWrite' = Record(AddTruckErr(trucks, id[p], cargo[p]),
                                   "AddTruck", id[p], cargo[p])
    /\ Goto(p, "AddUnlock")
    /\ UNCHANGED << writer, readers, op, id, cargo, out, main >>

\* Faulty variant of AddTruckUnlock: no defer, and the error returns of
\* lines 51, 54 and 59 leave without unlocking.
AddTruckUnlock_LeakOnError(p) ==
    /\ pc[p] = "AddUnlock"
    /\ IF ret[p] = Nil
       THEN Unlock(p, "idle")
       ELSE Goto(p, "idle") /\ UNCHANGED << writer, readers >>
    /\ Leave(p)
    /\ UNCHANGED << trucks, lastWrite, main >>

\* line 47: the deferred tm.Unlock(), and the return to the caller
AddTruckUnlock(p) ==
    /\ pc[p] = "AddUnlock"
    /\ Unlock(p, "idle")
    /\ Leave(p)
    /\ UNCHANGED << trucks, lastWrite, main >>

----------------------------------------------------------------------------
(* GetTruck                                                                *)

\* lines 73-77: the call GetTruck(i), and the id check made before the lock
\* is taken
GetTruckEnter(p, i) ==
    /\ pc[p] = "idle"
    /\ op' = [op EXCEPT ![p] = "GetTruck"]
    /\ id' = [id EXCEPT ![p] = i]
    /\ IF i = EmptyString
       THEN /\ ret' = [ret EXCEPT ![p] = ErrEmptyID]
            /\ out' = [out EXCEPT ![p] = ZeroTruck]
            /\ Goto(p, "done")
       ELSE /\ Goto(p, "GetRLock")
            /\ UNCHANGED << ret, out >>
    /\ UNCHANGED << trucks, writer, readers, cargo, lastWrite >>

CallGetTruck(p) ==
    /\ \E i \in CallIds : GetTruckEnter(p, i)
    /\ UNCHANGED main

\* line 79: tm.RLock(), which returns at once or blocks behind a writer
GetTruckRLock(p) ==
    /\ pc[p] = "GetRLock"
    /\ IF CanRLock
       THEN /\ readers' = readers \cup {p}
            /\ Goto(p, "GetRead")
       ELSE /\ Goto(p, "GetRWait")
            /\ UNCHANGED readers
    /\ UNCHANGED << trucks, writer, op, id, cargo, ret, out, lastWrite, main >>

\* lines 82-87, under the read lock: the lookup and the copy *truck
GetTruckRead(p) ==
    /\ pc[p] = "GetRead"
    /\ IF ReadRace(p)
       THEN /\ \E e \in Errors : ret' = [ret EXCEPT ![p] = e]
            /\ \E i \in Ids, c \in Cargos : out' = [out EXCEPT ![p] = Truck(i, c)]
       ELSE /\ ret' = [ret EXCEPT ![p] = GetTruckErr(trucks, id[p])]
            /\ out' = [out EXCEPT ![p] = GetTruckValue(trucks, id[p])]
    /\ Goto(p, "GetRUnlock")
    /\ UNCHANGED << trucks, writer, readers, op, id, cargo, lastWrite, main >>

\* line 80: the deferred tm.RUnlock(), and the return to the caller
GetTruckRUnlock(p) ==
    /\ pc[p] = "GetRUnlock"
    /\ RUnlock(p, "idle")
    /\ Leave(p)
    /\ UNCHANGED << trucks, writer, lastWrite, main >>

----------------------------------------------------------------------------
(* UpdateTruckCargo                                                        *)

\* lines 91-98: the call UpdateTruckCargo(i, c), and the argument checks made
\* before the lock is taken
UpdateTruckCargoEnter(p, i, c) ==
    /\ pc[p] = "idle"
    /\ op' = [op EXCEPT ![p] = "UpdateTruckCargo"]
    /\ id' = [id EXCEPT ![p] = i]
    /\ cargo' = [cargo EXCEPT ![p] = c]
    /\ IF UpdateTruckCargoArgErr(i, c) # Nil
       THEN /\ ret' = [ret EXCEPT ![p] = UpdateTruckCargoArgErr(i, c)]
            /\ Goto(p, "done")
       ELSE /\ Goto(p, "UpdLock")
            /\ UNCHANGED ret
    /\ UNCHANGED << trucks, writer, readers, out, lastWrite >>

CallUpdateTruckCargo(p) ==
    /\ \E i \in CallIds, c \in Cargos : UpdateTruckCargoEnter(p, i, c)
    /\ UNCHANGED main

\* Faulty variant of UpdateTruckCargoLock: the body is entered without
\* waiting for the mutex.
UpdateTruckCargoLock_NoWait(p) ==
    /\ pc[p] = "UpdLock"
    /\ writer' = p
    /\ Goto(p, "UpdBody")
    /\ UNCHANGED << trucks, readers, op, id, cargo, ret, out, lastWrite, main >>

\* line 100: tm.Lock(), which takes the writer mutex and returns at once or
\* blocks until the readers have left
UpdateTruckCargoLock(p) ==
    /\ pc[p] = "UpdLock"
    /\ CanLock
    /\ writer' = p
    /\ Goto(p, IF Drained THEN "UpdBody" ELSE "UpdLockWait")
    /\ UNCHANGED << trucks, readers, op, id, cargo, ret, out, lastWrite, main >>

\* lines 103-110, under the lock
UpdateTruckCargoBody(p) ==
    /\ pc[p] = "UpdBody"
    /\ IF WriteRace(p)
       THEN /\ trucks' \in AnyTrucks
            /\ \E e \in Errors : ret' = [ret EXCEPT ![p] = e]
            /\ UNCHANGED lastWrite
       ELSE /\ trucks' = UpdateTruckCargoMap(trucks, id[p], cargo[p])
            /\ ret' = [ret EXCEPT ![p] = UpdateTruckCargoErr(trucks, id[p])]
            /\ lastWrite' = Record(UpdateTruckCargoErr(trucks, id[p]),
                                   "UpdateTruckCargo", id[p], cargo[p])
    /\ Goto(p, "UpdUnlock")
    /\ UNCHANGED << writer, readers, op, id, cargo, out, main >>

\* line 101: the deferred tm.Unlock(), and the return to the caller
UpdateTruckCargoUnlock(p) ==
    /\ pc[p] = "UpdUnlock"
    /\ Unlock(p, "idle")
    /\ Leave(p)
    /\ UNCHANGED << trucks, lastWrite, main >>

----------------------------------------------------------------------------
(* RemoveTruck                                                             *)

\* line 114: the call RemoveTruck(i)
RemoveTruckEnter(p, i) == Invoke(p, "RemoveTruck", i, 0, "RemLock")

CallRemoveTruck(p) ==
    /\ \E i \in CallIds : RemoveTruckEnter(p, i)
    /\ UNCHANGED main

\* Faulty variant of RemoveTruckLock: the body is entered without the lock.
RemoveTruckLock_NoLock(p) ==
    /\ pc[p] = "RemLock"
    /\ Goto(p, "RemBody")
    /\ UNCHANGED << trucks, writer, readers, op, id, cargo, ret, out, lastWrite, main >>

\* line 115: tm.Lock(), which takes the writer mutex and returns at once or
\* blocks until the readers have left
RemoveTruckLock(p) ==
    /\ pc[p] = "RemLock"
    /\ CanLock
    /\ writer' = p
    /\ Goto(p, IF Drained THEN "RemBody" ELSE "RemLockWait")
    /\ UNCHANGED << trucks, readers, op, id, cargo, ret, out, lastWrite, main >>

\* lines 118-128, under the lock
RemoveTruckBody(p) ==
    /\ pc[p] = "RemBody"
    /\ IF WriteRace(p)
       THEN /\ trucks' \in AnyTrucks
            /\ \E e \in Errors : ret' = [ret EXCEPT ![p] = e]
            /\ UNCHANGED lastWrite
       ELSE /\ trucks' = RemoveTruckMap(trucks, id[p])
            /\ ret' = [ret EXCEPT ![p] = RemoveTruckErr(trucks, id[p])]
            /\ lastWrite' = Record(RemoveTruckErr(trucks, id[p]),
                                   "RemoveTruck", id[p], 0)
    /\ Goto(p, "RemUnlock")
    /\ UNCHANGED << writer, readers, op, id, cargo, out, main >>

\* line 116: the deferred tm.Unlock(), and the return to the caller
RemoveTruckUnlock(p) ==
    /\ pc[p] = "RemUnlock"
    /\ Unlock(p, "idle")
    /\ Leave(p)
    /\ UNCHANGED << trucks, lastWrite, main >>

----------------------------------------------------------------------------
\* The return of a call that failed before taking the lock (lines 76, 94, 97).
Return(p) ==
    /\ pc[p] = "done"
    /\ Finish(p)
    /\ UNCHANGED << trucks, writer, readers, lastWrite, main >>

Next ==
    \E p \in Procs :
        \/ CallAddTruck(p)
        \/ AddTruckLock(p)
        \/ AddTruckBody(p)
        \/ AddTruckUnlock(p)
        \/ CallGetTruck(p)
        \/ GetTruckRLock(p)
        \/ GetTruckRead(p)
        \/ GetTruckRUnlock(p)
        \/ CallUpdateTruckCargo(p)
        \/ UpdateTruckCargoLock(p)
        \/ UpdateTruckCargoBody(p)
        \/ UpdateTruckCargoUnlock(p)
        \/ CallRemoveTruck(p)
        \/ RemoveTruckLock(p)
        \/ RemoveTruckBody(p)
        \/ RemoveTruckUnlock(p)
        \/ Return(p)

Spec == Init /\ [][Next]_vars

----------------------------------------------------------------------------
(* The same goroutines under fair scheduling, passing fewer arguments.     *)

SmallIds == { EmptyString, <<"t", "1">> }
SmallCargos == { -1, 0 }
SmallArgs(p) == id[p] \in SmallIds /\ cargo[p] \in SmallCargos

NextFair ==
    \E p \in Procs :
        \/ CallAddTruck(p) /\ SmallArgs(p)'
        \/ AddTruckLock(p)
        \/ AddTruckBody(p)
        \/ AddTruckUnlock(p)
        \/ CallGetTruck(p) /\ SmallArgs(p)'
        \/ GetTruckRLock(p)
        \/ GetTruckRead(p)
        \/ GetTruckRUnlock(p)
        \/ CallUpdateTruckCargo(p) /\ SmallArgs(p)'
        \/ UpdateTruckCargoLock(p)
        \/ UpdateTruckCargoBody(p)
        \/ UpdateTruckCargoUnlock(p)
        \/ CallRemoveTruck(p) /\ SmallArgs(p)'
        \/ RemoveTruckLock(p)
        \/ RemoveTruckBody(p)
        \/ RemoveTruckUnlock(p)
        \/ Return(p)

\* Goroutine p takes the writer mutex: sync.Mutex hands the mutex to a
\* goroutine that has waited long for it, so no waiter is passed over for ever.
TakeWriterMutex(p) ==
    AddTruckLock(p) \/ UpdateTruckCargoLock(p) \/ RemoveTruckLock(p)

\* Any other step of goroutine p inside a call: the scheduler runs every
\* goroutine that stays runnable. Whether a goroutine calls again is up to it.
Proceed(p) ==
    \/ AddTruckBody(p) \/ AddTruckUnlock(p)
    \/ GetTruckRLock(p) \/ GetTruckRead(p) \/ GetTruckRUnlock(p)
    \/ UpdateTruckCargoBody(p) \/ UpdateTruckCargoUnlock(p)
    \/ RemoveTruckBody(p) \/ RemoveTruckUnlock(p)
    \/ Return(p)

SpecFair ==
    /\ Init
    /\ [][NextFair]_vars
    /\ \A p \in Procs : WF_vars(Proceed(p)) /\ SF_vars(TakeWriterMutex(p))

----------------------------------------------------------------------------
(* N goroutines each inside one AddTruck call, with pairwise distinct      *)
(* non-empty ids and valid cargo, on the empty registry.                   *)

ValidIds == Ids \ {EmptyString}
ValidCargos == { c \in Cargos : c >= 0 }

InitAddN ==
    /\ trucks = [k \in {} |-> ZeroTruck]
    /\ writer = 0
    /\ readers = {}
    /\ pc = [p \in Procs |-> "AddLock"]
    /\ op = [p \in Procs |-> "AddTruck"]
    /\ id \in { f \in [Procs -> ValidIds] : \A p, q \in Procs : p # q => f[p] # f[q] }
    /\ cargo \in [Procs -> ValidCargos]
    /\ ret = [p \in Procs |-> Nil]
    /\ out = [p \in Procs |-> ZeroTruck]
    /\ lastWrite = [k \in Ids |-> NoWrite]
    /\ main = NoMain

NextAddN ==
    \E p \in Procs :
        \/ AddTruckLock(p)
        \/ AddTruckBody(p)
        \/ AddTruckUnlock(p)

SpecAddN == InitAddN /\ [][NextAddN]_vars

(* N goroutines each inside one UpdateTruckCargo call that has passed its  *)
(* argument checks, on a registry that holds the ids they pass.            *)

InitUpdN ==
    /\ trucks \in { t \in AnyTrucks :
                      /\ DOMAIN t # {}
                      /\ \A k \in DOMAIN t : k # EmptyString /\ t[k].Cargo >= 0 }
    /\ writer = 0
    /\ readers = {}
    /\ pc = [p \in Procs |-> "UpdLock"]
    /\ op = [p \in Procs |-> "UpdateTruckCargo"]
    /\ id \in [Procs -> DOMAIN trucks]
    /\ cargo \in [Procs -> ValidCargos]
    /\ ret = [p \in Procs |-> Nil]
    /\ out = [p \in Procs |-> ZeroTruck]
    /\ lastWrite = [k \in Ids |-> IF k \in DOMAIN trucks
                                   THEN Wrote(trucks[k].Cargo) ELSE NoWrite]
    /\ main = NoMain

NextUpdN ==
    \E p \in Procs :
        \/ UpdateTruckCargoLock(p)
        \/ UpdateTruckCargoBody(p)
        \/ UpdateTruckCargoUnlock(p)

SpecUpdN == InitUpdN /\ [][NextUpdN]_vars

----------------------------------------------------------------------------
(* N goroutines each inside one AddTruck call with the same non-empty id   *)
(* and valid cargo, on the empty registry.                                 *)

InitAddSame ==
    /\ trucks = [k \in {} |-> ZeroTruck]
    /\ writer = 0
    /\ readers = {}
    /\ pc = [p \in Procs |-> "AddLock"]
    /\ op = [p \in Procs |-> "AddTruck"]
    /\ id \in { [p \in Procs |-> i] : i \in ValidIds }
    /\ cargo \in [Procs -> ValidCargos]
    /\ ret = [p \in Procs |-> Nil]
    /\ out = [p \in Procs |-> ZeroTruck]
    /\ lastWrite = [k \in Ids |-> NoWrite]
    /\ main = NoMain

SpecAddSame == InitAddSame /\ [][NextAddN]_vars

----------------------------------------------------------------------------
(* Callers that keep the Truck value GetTruck returned and write to its    *)
(* fields, while the registry goes on being changed.  A call that has      *)
(* returned and whose result the caller still holds is at place "done".    *)

CopyIds == { EmptyString, <<"t", "1">> }
CopyCargos == { 0, 1 }
CopyArgs(p) == id[p] \in CopyIds /\ cargo[p] \in CopyCargos

\* lines 80, 87: the deferred tm.RUnlock(), and `return *truck, nil`: the
\* caller receives the Truck value that line 87 copied out of the record.
GetTruckReturn(p) ==
    /\ pc[p] = "GetRUnlock"
    /\ RUnlock(p, "done")
    /\ UNCHANGED << trucks, writer, op, id, cargo, ret, out, lastWrite, main >>

\* Faulty variant of CallerModify: GetTruck returned the *Truck of the map, so
\* that the caller's assignment writes to the stored record.
CallerModify_Shared(p) ==
    /\ pc[p] = "done"
    /\ op[p] = "GetTruck"
    /\ ret[p] = Nil
    /\ \E i \in { out[p].ID, <<"t", "2">> }, c \in CopyCargos :
        /\ Truck(i, c) # out[p]
        /\ out' = [out EXCEPT ![p] = Truck(i, c)]
        /\ trucks' = IF id[p] \in DOMAIN trucks
                     THEN [trucks EXCEPT ![id[p]] = Truck(i, c)]
                     ELSE trucks
    /\ UNCHANGED << writer, readers, pc, op, id, cargo, ret, lastWrite, main >>

\* The caller assigns to the ID or the Cargo field of the Truck value it got
\* from GetTruck (a value of type Truck, lines 26-29, not a *Truck).
CallerModify(p) ==
    /\ pc[p] = "done"
    /\ op[p] = "GetTruck"
    /\ ret[p] = Nil
    /\ \E i \in { out[p].ID, <<"t", "2">> }, c \in CopyCargos :
        /\ Truck(i, c) # out[p]
        /\ out' = [out EXCEPT ![p] = Truck(i, c)]
    /\ UNCHANGED << trucks, writer, readers, pc, op, id, cargo, ret, lastWrite, main >>

NextCopy ==
    \E p \in Procs :
        \/ CallAddTruck(p) /\ CopyArgs(p)'
        \/ AddTruckLock(p)
        \/ AddTruckBody(p)
        \/ AddTruckUnlock(p)
        \/ CallGetTruck(p) /\ CopyArgs(p)'
        \/ GetTruckRLock(p)
        \/ GetTruckRead(p)
        \/ GetTruckReturn(p)
        \/ CallerModify(p)
        \/ CallUpdateTruckCargo(p) /\ CopyArgs(p)'
        \/ UpdateTruckCargoLock(p)
        \/ UpdateTruckCargoBody(p)
        \/ UpdateTruckCargoUnlock(p)
        \/ CallRemoveTruck(p) /\ CopyArgs(p)'
        \/ RemoveTruckLock(p)
        \/ RemoveTruckBody(p)
        \/ RemoveTruckUnlock(p)
        \/ Return(p)

SpecCopy == Init /\ [][NextCopy]_vars

----------------------------------------------------------------------------
(* func main, lines 132-186: one goroutine that makes eight calls in order *)
(* on a new registry.  main passes "truck1", "truck2" and the loads 1000,  *)
(* 2000 and 1500; MainCalls(a, b, c1, c2, c3) is the same sequence with    *)
(* other names and loads in their places.                                  *)

Truck1 == <<"t", "r", "u", "c", "k", "1">>
Truck2 == <<"t", "r", "u", "c", "k", "2">>
MainIds == { Truck1, Truck2 }
MainCargos == { 1000, 1500, 2000 }

MainCall(o, i, c) == [op |-> o, id |-> i, cargo |-> c]
MainCalls(a, b, c1, c2, c3) ==
    << MainCall("AddTruck", a, c1),
       MainCall("AddTruck", b, c2),
       MainCall("AddTruck", a, c3),
       MainCall("GetTruck", a, 0),
       MainCall("UpdateTruckCargo", a, c3),
       MainCall("GetTruck", a, 0),
       MainCall("RemoveTruck", a, 0),
       MainCall("GetTruck", a, 0) >>
\* The calls of main as written.
DemoCalls == MainCalls(Truck1, Truck2, 1000, 2000, 1500)

\* The goroutine that runs main.
MainProc == 1

\* line 134: manager := NewTruckManager()
InitMain ==
    /\ trucks = [k \in {} |-> ZeroTruck]
    /\ writer = 0
    /\ readers = {}
    /\ pc = [p \in Procs |-> "idle"]
    /\ op = [p \in Procs |-> "none"]
    /\ id = [p \in Procs |-> EmptyString]
    /\ cargo = [p \in Procs |-> 0]
    /\ ret = [p \in Procs |-> Nil]
    /\ out = [p \in Procs |-> ZeroTruck]
    /\ lastWrite = [k \in MainIds |-> NoWrite]
    /\ \E a \in MainIds, c1 \in MainCargos, c2 \in MainCargos, c3 \in MainCargos :
        \E b \in MainIds \ {a} :
            main = [calls |-> MainCalls(a, b, c1, c2, c3), at |-> 0]

\* main makes its next call once the one before has returned.
MainNextCall ==
    /\ main.at < Len(main.calls)
    /\ LET call == main.calls[main.at + 1] IN
        CASE call.op = "AddTruck" ->
                AddTruckEnter(MainProc, call.id, call.cargo)
          [] call.op = "GetTruck" ->
                GetTruckEnter(MainProc, call.id)
          [] call.op = "UpdateTruckCargo" ->
                UpdateTruckCargoEnter(MainProc, call.id, call.cargo)
          [] call.op = "RemoveTruck" ->
                RemoveTruckEnter(MainProc, call.id)
    /\ main' = [main EXCEPT !.at = @ + 1]

NextMain ==
    \/ MainNextCall
    \/ AddTruckLock(MainProc)
    \/ AddTruckBody(MainProc)
    \/ AddTruckUnlock(MainProc)
    \/ GetTruckRLock(MainProc)
    \/ GetTruckRead(MainProc)
    \/ GetTruckRUnlock(MainProc)
    \/ UpdateTruckCargoLock(MainProc)
    \/ UpdateTruckCargoBody(MainProc)
    \/ UpdateTruckCargoUnlock(MainProc)
    \/ RemoveTruckLock(MainProc)
    \/ RemoveTruckBody(MainProc)
    \/ RemoveTruckUnlock(MainProc)

SpecMain == InitMain /\ [][NextMain]_vars

----------------------------------------------------------------------------
(* Properties.  A call's result is read in the state the call is in after  *)
(* its body has run and before it returns: pc = "AddUnlock", "GetRUnlock", *)
(* "UpdUnlock", "RemUnlock", or "done" for a call that failed before       *)
(* taking the lock.                                                        *)

\* Goroutine p takes the step of its call that leads from place a to place b.
Step(p, a, b) == pc[p] = a /\ pc'[p] = b

\* C1: in every reachable state, under every interleaving of the four
\* operations with arbitrary arguments, every key of the map is a non-empty
\* string and every stored record has cargo >= 0.
C1_KeysNonEmptyCargoNonNegative ==
    \A k \in DOMAIN trucks : k # EmptyString /\ trucks[k].Cargo >= 0

\* An AddTruck with a negative cargo and an UpdateTruckCargo with a negative
\* cargo have both run while the registry holds a record.
C1_Witness ==
    /\ DOMAIN trucks # {}
    /\ \E p \in Procs : pc[p] = "AddUnlock" /\ cargo[p] < 0 /\ id[p] # EmptyString
    /\ \E p \in Procs : pc[p] = "done" /\ ret[p] = ErrInvalidCargo

\* C2: AddTruck(id, cargo) with a non-empty absent id and cargo >= 0 succeeds,
\* and a GetTruck(id) that reads the map while that AddTruck is still the
\* last successful mutation of id returns {id, cargo} and no error.
C2_AddThenGet ==
    [][\A p \in Procs :
        /\ ( /\ Step(p, "AddBody", "AddUnlock")
             /\ id[p] # EmptyString /\ cargo[p] >= 0 /\ id[p] \notin DOMAIN trucks )
           => ( ret'[p] = Nil /\ lastWrite'[id[p]] = Wrote(cargo[p]) )
        /\ ( Step(p, "GetRead", "GetRUnlock") /\ lastWrite[id[p]].present )
           => ( /\ ret'[p] = Nil
                /\ out'[p] = Truck(id[p], lastWrite[id[p]].cargo) )
      ]_vars

\* A GetTruck has returned the record of an id whose last successful mutation
\* wrote cargo 1.
C2_Witness ==
    \E p \in Procs :
        /\ pc[p] = "GetRUnlock"
        /\ lastWrite[id[p]] = Wrote(1)
        /\ ret[p] = Nil
        /\ out[p] = Truck(id[p], 1)

\* C3: AddTruck(id, cargo2) with id present and cargo2 >= 0 fails with
\* ErrTruckExist and changes no record: the record under id keeps its cargo.
C3_AddExistingFails ==
    [][\A p \in Procs :
        ( /\ Step(p, "AddBody", "AddUnlock")
          /\ id[p] \in DOMAIN trucks /\ cargo[p] >= 0 )
        => ( ret'[p] = ErrTruckExist /\ trucks' = trucks )
      ]_vars

\* An AddTruck of a present id has failed with ErrTruckExist, having passed
\* a cargo other than the stored one.
C3_Witness ==
    \E p \in Procs :
        /\ pc[p] = "AddUnlock"
        /\ ret[p] = ErrTruckExist
        /\ id[p] \in DOMAIN trucks
        /\ cargo[p] >= 0
        /\ trucks[id[p]].Cargo # cargo[p]

\* C4: AddTruck(id, cargo) with a non-empty id and cargo < 0 fails with
\* ErrInvalidCargo, whether or not id is present, and leaves the registry as
\* it was.
C4_AddNegativeCargoFails ==
    [][\A p \in Procs :
        ( /\ Step(p, "AddBody", "AddUnlock")
          /\ id[p] # EmptyString /\ cargo[p] < 0 )
        => ( ret'[p] = ErrInvalidCargo /\ trucks' = trucks )
      ]_vars

\* An AddTruck with negative cargo has failed with ErrInvalidCargo on an id
\* that is present.
C4_Witness ==
    \E p \in Procs :
        /\ pc[p] = "AddUnlock"
        /\ cargo[p] < 0
        /\ id[p] \in DOMAIN trucks
        /\ ret[p] = ErrInvalidCargo

\* A string that is empty or made of white space only.
IsBlank(str) == \A n \in 1..Len(str) : str[n] \in { " ", "\t", "\n", "\r" }

\* The places where a call's result is set and the call has not yet returned.
ResultPcs == { "AddUnlock", "GetRUnlock", "UpdUnlock", "RemUnlock", "done" }

\* Every step that goroutine p takes in a call whose identifier satisfies
\* Bad leaves the map unchanged, the call's result is ErrEmptyID, and no key
\* of the map satisfies Bad.
Rejected(Bad(_)) ==
    /\ \A p \in Procs :
        ( op'[p] # "none" /\ Bad(id'[p]) /\ pc'[p] # pc[p] )
        => ( /\ trucks' = trucks
             /\ pc'[p] \in ResultPcs => ret'[p] = ErrEmptyID )
    /\ \A k \in DOMAIN trucks' : ~Bad(k)

IsEmpty(str) == str = EmptyString

\* C5 as stated: each of the four operations, called with an identifier that
\* is empty or blank (whitespace-only), fails with ErrEmptyID and leaves the
\* registry unchanged, and no record is stored under an empty or blank key.
C5_BlankIdRejected == [][Rejected(IsBlank)]_vars

\* C5, amended: each of the four operations, called with the empty
\* identifier "", fails with ErrEmptyID and leaves the registry unchanged,
\* and no record is stored under the empty key.
C5_EmptyIdRejected == [][Rejected(IsEmpty)]_vars

\* A RemoveTruck("") has failed with ErrEmptyID on a registry that holds a
\* record, and a GetTruck("") has failed before taking the lock.
C5_Witness ==
    /\ DOMAIN trucks # {}
    /\ \E p \in Procs :
        pc[p] = "RemUnlock" /\ id[p] = EmptyString /\ ret[p] = ErrEmptyID
    /\ \E p \in Procs :
        pc[p] = "done" /\ op[p] = "GetTruck" /\ ret[p] = ErrEmptyID

\* C6: for a non-empty id that is absent, GetTruck(id), UpdateTruckCargo(id,
\* cargo) with cargo >= 0 and RemoveTruck(id) each fail with ErrTruckNotFound
\* and leave the registry unchanged: a failed update creates no record.
C6_AbsentIdNotFound ==
    [][\A p \in Procs :
        ( /\ id[p] # EmptyString
          /\ id[p] \notin DOMAIN trucks
          /\ \/ Step(p, "GetRead", "GetRUnlock")
             \/ Step(p, "UpdBody", "UpdUnlock") /\ cargo[p] >= 0
             \/ Step(p, "RemBody", "RemUnlock") )
        => ( /\ ret'[p] = ErrTruckNotFound
             /\ trucks' = trucks
             /\ out'[p] = ZeroTruck )
      ]_vars

\* An UpdateTruckCargo of an absent id has failed with ErrTruckNotFound on a
\* registry that holds another record, and the id is still absent.
C6_Witness ==
    \E p \in Procs :
        /\ pc[p] = "UpdUnlock"
        /\ ret[p] = ErrTruckNotFound
        /\ id[p] \notin DOMAIN trucks
        /\ DOMAIN trucks # {}

\* C7: UpdateTruckCargo(id, newCargo) with id present and newCargo >= 0
\* succeeds, keeps the set of keys and every record with another id, and a
\* GetTruck(id) that reads while this update is still the last successful
\* mutation of id returns exactly {id, newCargo}.
C7_UpdateThenGet ==
    [][\A p \in Procs :
        /\ ( /\ Step(p, "UpdBody", "UpdUnlock")
             /\ id[p] \in DOMAIN trucks /\ cargo[p] >= 0 )
           => ( /\ ret'[p] = Nil
                /\ DOMAIN trucks' = DOMAIN trucks
                /\ \A k \in DOMAIN trucks \ {id[p]} : trucks'[k] = trucks[k]
                /\ trucks'[id[p]] = Truck(id[p], cargo[p])
                /\ lastWrite'[id[p]] = Wrote(cargo[p]) )
        /\ ( Step(p, "GetRead", "GetRUnlock") /\ lastWrite[id[p]].present )
           => ( ret'[p] = Nil /\ out'[p].ID = id[p]
                /\ out'[p].Cargo = lastWrite[id[p]].cargo )
      ]_vars

\* An UpdateTruckCargo has succeeded and changed the cargo of its record
\* while the registry holds a record under another id with another cargo.
C7_Witness ==
    \E p \in Procs :
        /\ pc[p] = "UpdUnlock"
        /\ ret[p] = Nil
        /\ \E k \in DOMAIN trucks : k # id[p] /\ trucks[k].Cargo # cargo[p]

\* C8: RemoveTruck(id) with id present succeeds and removes exactly that key:
\* the registry has one record fewer and every other record is unchanged;
\* a GetTruck(id) that reads with no successful AddTruck(id) since fails
\* with ErrTruckNotFound.
C8_RemoveThenGet ==
    [][\A p \in Procs :
        /\ ( Step(p, "RemBody", "RemUnlock") /\ id[p] \in DOMAIN trucks )
           => ( /\ ret'[p] = Nil
                /\ DOMAIN trucks' = DOMAIN trucks \ {id[p]}
                /\ Cardinality(DOMAIN trucks') = Cardinality(DOMAIN trucks) - 1
                /\ \A k \in DOMAIN trucks' : trucks'[k] = trucks[k]
                /\ lastWrite'[id[p]] = NoWrite )
        /\ ( Step(p, "GetRead", "GetRUnlock") /\ ~lastWrite[id[p]].present )
           => ( ret'[p] = ErrTruckNotFound /\ out'[p] = ZeroTruck )
      ]_vars

\* A RemoveTruck has succeeded and left another record in the registry.
C8_Witness ==
    \E p \in Procs :
        /\ pc[p] = "RemUnlock"
        /\ ret[p] = Nil
        /\ id[p] \notin DOMAIN trucks
        /\ DOMAIN trucks # {}

\* C9 (under SpecAddN: N goroutines, each in one AddTruck call, pairwise
\* distinct non-empty ids, cargo >= 0, registry empty at the start): under
\* every interleaving each call succeeds and has its record {id, cargo} in
\* the map when it returns, a record once stored is never changed or lost,
\* and once all N calls have returned the registry holds exactly N records.
C9_ConcurrentAddsAllStored ==
    /\ [](\A p \in Procs :
            pc[p] = "AddUnlock"
            => ( /\ ret[p] = Nil
                 /\ id[p] \in DOMAIN trucks
                 /\ trucks[id[p]] = Truck(id[p], cargo[p]) ))
    /\ []((\A p \in Procs : pc[p] = "idle")
            => Cardinality(DOMAIN trucks) = NumProcs)
    /\ [][\A k \in DOMAIN trucks : k \in DOMAIN trucks' /\ trucks'[k] = trucks[k]]_vars

\* All N calls have returned and the registry holds N records, not all with
\* the same cargo.
C9_Witness ==
    /\ \A p \in Procs : pc[p] = "idle"
    /\ Cardinality(DOMAIN trucks) = NumProcs
    /\ \E k1, k2 \in DOMAIN trucks : trucks[k1].Cargo # trucks[k2].Cargo

\* C10 (under SpecUpdN: N goroutines, each in one UpdateTruckCargo call with
\* valid arguments on a present id, the same or different): under every
\* interleaving each call succeeds and has its cargo in its record when it
\* returns; in every state, so also once all have returned, each record's
\* cargo is the one passed by the last call on that id to have held the
\* write lock; and a record changes only by the step of the lock holder's
\* update of that very id.
C10_NoLostUpdate ==
    /\ [](\A p \in Procs :
            pc[p] = "UpdUnlock"
            => ( /\ ret[p] = Nil
                 /\ writer = p
                 /\ trucks[id[p]] = Truck(id[p], cargo[p]) ))
    /\ [](\A k \in Ids :
            IF k \in DOMAIN trucks
            THEN lastWrite[k] = Wrote(trucks[k].Cargo)
            ELSE lastWrite[k] = NoWrite)
    /\ [][\A k \in DOMAIN trucks :
            /\ k \in DOMAIN trucks'
            /\ trucks'[k] # trucks[k]
               => \E p \in Procs :
                    /\ Step(p, "UpdBody", "UpdUnlock")
                    /\ writer = p
                    /\ id[p] = k
                    /\ trucks'[k] = Truck(k, cargo[p])
       ]_vars

\* One update of an id has written its cargo and still holds the lock while
\* another update of the same id, with another cargo, waits for the lock.
C10_Witness ==
    \E p, q \in Procs :
        /\ pc[p] = "UpdUnlock"
        /\ pc[q] = "UpdLock"
        /\ id[q] = id[p]
        /\ cargo[q] # cargo[p]
        /\ trucks[id[p]].Cargo = cargo[p]
        /\ Cardinality(DOMAIN trucks) > 1

\* C11: lock discipline. A goroutine is at a place where GetTruck touches the
\* map only while it holds the read lock, and at a place where AddTruck,
\* UpdateTruckCargo or RemoveTruck touches the map only while it holds the
\* write lock; at most one writer is inside its critical section, and no
\* reader is inside one together with a writer.
C11_LockDiscipline ==
    /\ \A p \in Procs : pc[p] \in WriterPcs => ( writer = p /\ readers = {} )
    /\ \A p \in Procs : pc[p] \in ReaderPcs => p \in readers
    /\ \A p, q \in Procs : ( pc[p] \in WriterPcs /\ pc[q] \in WriterPcs ) => p = q
    /\ \A p, q \in Procs : ~( pc[p] \in WriterPcs /\ pc[q] \in ReaderPcs )

\* Two readers are inside their critical sections together, and with a third
\* goroutine a writer has announced itself and waits for them.
C11_Witness ==
    \E p, q \in Procs :
        /\ p # q
        /\ pc[p] = "GetRead"
        /\ pc[q] \in ReaderPcs
        /\ \/ NumProcs = 2
           \/ \E w \in Procs : pc[w] \in { "AddLockWait", "UpdLockWait", "RemLockWait" }

\* Goroutine p holds the RWMutex, for writing or for reading.
HoldsLock(p) == ( writer = p /\ pc[p] \in WriterPcs ) \/ p \in readers

\* The steps in which a call checks its arguments: before the lock in GetTruck
\* (line 75) and UpdateTruckCargo (lines 93-98), in the body of AddTruck
\* (lines 50-55) and of RemoveTruck (line 118).
ArgCheckBeforeLock(p) ==
    pc[p] = "idle" /\ op'[p] \in { "GetTruck", "UpdateTruckCargo" }
ArgCheckInBody(p) ==
    Step(p, "AddBody", "AddUnlock") \/ Step(p, "RemBody", "RemUnlock")
\* The steps in which a call looks its id up in the map (lines 58, 82, 104, 123).
ExistenceCheck(p) ==
    \/ Step(p, "AddBody", "AddUnlock")
    \/ Step(p, "GetRead", "GetRUnlock")
    \/ Step(p, "UpdBody", "UpdUnlock")
    \/ Step(p, "RemBody", "RemUnlock")

\* C12 as stated: in every operation no input validation step and no
\* existence check runs outside the lock.
C12_AllChecksUnderLock ==
    [][\A p \in Procs :
        ( ArgCheckBeforeLock(p) \/ ArgCheckInBody(p) \/ ExistenceCheck(p) )
        => HoldsLock(p)
      ]_vars

\* C12, amended: AddTruck and RemoveTruck check their arguments under the
\* write lock; GetTruck and UpdateTruckCargo check theirs (empty id, negative
\* cargo) before taking the lock, in a step that holds no lock and leaves
\* the registry alone and that alone decides ErrEmptyID and ErrInvalidCargo;
\* every existence check, and so every mutation, of every operation runs
\* under the lock (the write lock, or the read lock for GetTruck).
C12_ChecksUnderLockButArgs ==
    [][\A p \in Procs :
        /\ ( ArgCheckInBody(p) \/ ExistenceCheck(p) ) => HoldsLock(p)
        /\ ( ExistenceCheck(p) /\ op[p] # "GetTruck" ) => writer = p
        /\ trucks' # trucks => ( writer = p \/ pc'[p] = pc[p] )
        /\ ArgCheckBeforeLock(p)
           => ( /\ ~HoldsLock(p)
                /\ trucks' = trucks
                /\ pc'[p] = "done"
                   <=> ( id'[p] = EmptyString
                         \/ ( op'[p] = "UpdateTruckCargo" /\ cargo'[p] < 0 ) ) )
      ]_vars

\* An UpdateTruckCargo has failed its argument check while another goroutine
\* holds the write lock inside the body of RemoveTruck.
C12_Witness ==
    \E p, q \in Procs :
        /\ pc[p] = "done"
        /\ op[p] = "UpdateTruckCargo"
        /\ ret[p] = ErrInvalidCargo
        /\ pc[q] = "RemBody"
        /\ writer = q

\* C13: under fair scheduling every call eventually returns, and a goroutine
\* that is not inside a call holds no lock (every return path has released
\* the lock it took), so the lock is free whenever no call is in progress.
C13_CallsReturnLockReleased ==
    /\ [](\A p \in Procs : pc[p] \in { "idle", "done" }
                             => ( writer # p /\ p \notin readers ))
    /\ []((\A p \in Procs : pc[p] = "idle") => ( writer = 0 /\ readers = {} ))
    /\ \A p \in Procs : ( pc[p] # "idle" ) ~> ( pc[p] = "idle" )

\* A reader is blocked in RLock() behind a writer that itself waits for
\* another goroutine (with two goroutines: behind a writer in its body).
C13_Witness ==
    \E p, q \in Procs :
        /\ pc[p] = "GetRWait"
        /\ p \notin readers
        /\ writer = q
        /\ \/ NumProcs = 2 /\ pc[q] \in WriterPcs
           \/ pc[q] \in { "AddLockWait", "UpdLockWait", "RemLockWait" }

\* C14: every call returns nil or one of the four errors, chosen in this
\* order: ErrEmptyID before ErrInvalidCargo before the presence check
\* (ErrTruckExist for AddTruck, ErrTruckNotFound for the others). So
\* AddTruck("", -1) and UpdateTruckCargo("", -1) return ErrEmptyID,
\* AddTruck(present, -1) and UpdateTruckCargo(absent, -1) ErrInvalidCargo.
C14_ErrorPrecedence ==
    \A p \in Procs :
        pc[p] \in ResultPcs =>
            /\ ret[p] \in Errors
            /\ id[p] = EmptyString => ret[p] = ErrEmptyID
            /\ ( /\ id[p] # EmptyString
                 /\ op[p] \in { "AddTruck", "UpdateTruckCargo" }
                 /\ cargo[p] < 0 ) => ret[p] = ErrInvalidCargo
            /\ ret[p] = ErrEmptyID => id[p] = EmptyString
            /\ ret[p] = ErrInvalidCargo
                  => ( /\ op[p] \in { "AddTruck", "UpdateTruckCargo" }
                       /\ id[p] # EmptyString /\ cargo[p] < 0 )
            /\ ret[p] = ErrTruckExist
                  => ( /\ op[p] = "AddTruck"
                       /\ id[p] # EmptyString /\ cargo[p] >= 0
                       /\ id[p] \in DOMAIN trucks )
            /\ ret[p] = ErrTruckNotFound
                  => ( /\ op[p] \in { "GetTruck", "UpdateTruckCargo", "RemoveTruck" }
                       /\ id[p] # EmptyString /\ cargo[p] >= 0
                       /\ id[p] \notin DOMAIN trucks )

\* AddTruck(present, -1) has returned ErrInvalidCargo while the result of an
\* UpdateTruckCargo("", -1), ErrEmptyID, has not been taken yet.
C14_Witness ==
    \E p, q \in Procs :
        /\ pc[p] = "AddUnlock"
        /\ id[p] \in DOMAIN trucks
        /\ cargo[p] < 0
        /\ ret[p] = ErrInvalidCargo
        /\ pc[q] = "done"
        /\ op[q] = "UpdateTruckCargo"
        /\ id[q] = EmptyString
        /\ cargo[q] < 0
        /\ ret[q] = ErrEmptyID

\* Goroutine p holds a Truck value that a successful GetTruck returned to it.
HoldsTruck(p) == pc[p] = "done" /\ op[p] = "GetTruck" /\ ret[p] = Nil

\* C15: GetTruck returns a copy of the stored record. The value returned is
\* the record as it was when read; a caller that changes the ID or the Cargo
\* of the value it holds leaves the registry as it is; and a step that
\* changes the registry (a later UpdateTruckCargo or RemoveTruck of the id,
\* or any other mutation) leaves every value held by a caller as it is.
C15_GetReturnsCopy ==
    [][\A p \in Procs :
        /\ ( Step(p, "GetRead", "GetRUnlock") /\ id[p] \in DOMAIN trucks )
           => ( ret'[p] = Nil /\ out'[p] = Truck(id[p], trucks[id[p]].Cargo) )
        /\ Step(p, "GetRUnlock", "done") => ( out'[p] = out[p] /\ ret'[p] = ret[p] )
        /\ ( HoldsTruck(p) /\ out'[p] # out[p] /\ pc'[p] = "done" )
           => trucks' = trucks
        /\ ( HoldsTruck(p) /\ trucks' # trucks )
           => ( HoldsTruck(p)' /\ out'[p] = out[p] )
      ]_vars

\* A caller holds the Truck it got for an id and has changed its ID, while
\* the registry still holds the record under that id, with its own ID and
\* with a cargo that an UpdateTruckCargo or the caller has since made
\* different from the one held.
C15_Witness ==
    \E p \in Procs :
        /\ HoldsTruck(p)
        /\ id[p] \in DOMAIN trucks
        /\ trucks[id[p]].ID = id[p]
        /\ out[p].ID # id[p]
        /\ out[p].Cargo # trucks[id[p]].Cargo
        /\ \E q \in Procs \ {p} :
              /\ pc[q] = "UpdUnlock"
              /\ id[q] = id[p]
              /\ ret[q] = Nil

\* The result of the call of main that is in progress: call number n of
\* DemoCalls has run its body at place and returned error e and Truck v.
MainResult(n, place, e, v) ==
    ( main.at = n /\ pc[MainProc] = place )
    => ( ret[MainProc] = e /\ out[MainProc] = v )

\* C16: main's sequence on a new registry: AddTruck("truck1", 1000) and
\* AddTruck("truck2", 2000) succeed, AddTruck("truck1", 1500) returns
\* ErrTruckExist, GetTruck("truck1") returns {truck1, 1000},
\* UpdateTruckCargo("truck1", 1500) succeeds, GetTruck("truck1") returns
\* {truck1, 1500}, RemoveTruck("truck1") succeeds, GetTruck("truck1") returns
\* ErrTruckNotFound, and the registry is then exactly {truck2 -> 2000}.
C16_DemoSequence ==
    main.calls = DemoCalls =>
        /\ MainResult(1, "AddUnlock", Nil, ZeroTruck)
        /\ MainResult(2, "AddUnlock", Nil, ZeroTruck)
        /\ MainResult(3, "AddUnlock", ErrTruckExist, ZeroTruck)
        /\ MainResult(4, "GetRUnlock", Nil, Truck(Truck1, 1000))
        /\ MainResult(5, "UpdUnlock", Nil, ZeroTruck)
        /\ MainResult(6, "GetRUnlock", Nil, Truck(Truck1, 1500))
        /\ MainResult(7, "RemUnlock", Nil, ZeroTruck)
        /\ MainResult(8, "GetRUnlock", ErrTruckNotFound, ZeroTruck)
        /\ pc[MainProc] \notin { "done", "GetRWait" }
        /\ ( main.at = Len(DemoCalls) /\ pc[MainProc] = "idle" )
           => trucks = [k \in {Truck2} |-> Truck(Truck2, 2000)]

\* main, as written, has made its eight calls and the last has returned.
C16_Witness ==
    /\ main.calls = DemoCalls
    /\ main.at = Len(DemoCalls)
    /\ pc[MainProc] = "idle"
    /\ DOMAIN trucks = {Truck2}

\* The id that every call of SpecAddSame passes is in the registry: one of
\* the calls has succeeded.
Won == \A p \in Procs : op[p] = "AddTruck" => id[p] \in DOMAIN trucks

\* C17: several AddTruck calls with the same non-empty absent id and valid
\* cargos, under every interleaving: a call succeeds if and only if none has
\* succeeded before it, and then stores the cargo it passed; every other
\* call fails with ErrTruckExist and changes nothing; once one has
\* succeeded the registry never changes again; and when all have returned
\* one has succeeded. So exactly one succeeds, and the stored cargo is its.
C17_OneAddWins ==
    /\ [][\A p \in Procs :
            Step(p, "AddBody", "AddUnlock")
            => /\ ret'[p] = Nil <=> ~Won
               /\ ret'[p] = Nil
                  => trucks' = [k \in {id[p]} |-> Truck(id[p], cargo[p])]
               /\ ret'[p] # Nil => ( ret'[p] = ErrTruckExist /\ trucks' = trucks )
          ]_vars
    /\ [][Won => trucks' = trucks]_vars
    /\ []((\A p \in Procs : pc[p] = "idle") => Cardinality(DOMAIN trucks) = 1)

\* A call has failed with ErrTruckExist after the call of another goroutine,
\* which passed another cargo, succeeded and returned; the stored cargo is
\* not the one the failed call passed.
C17_Witness ==
    \E p, q \in Procs :
        /\ p # q
        /\ pc[p] = "AddUnlock"
        /\ ret[p] = ErrTruckExist
        /\ pc[q] = "idle"
        /\ id[p] \in DOMAIN trucks
        /\ trucks[id[p]].Cargo # cargo[p]

\* C18: a successful AddTruck(id, cargo) increases the size of the registry
\* by exactly 1 and changes nothing else: the only new key is id, and every
\* record present before is present after with the same ID and cargo.
C18_AddFrame ==
    [][\A p \in Procs :
        ( Step(p, "AddBody", "AddUnlock") /\ ret'[p] = Nil )
        => /\ Cardinality(DOMAIN trucks') = Cardinality(DOMAIN trucks) + 1
           /\ DOMAIN trucks' = DOMAIN trucks \cup { id[p] }
           /\ id[p] \notin DOMAIN trucks
           /\ \A k \in DOMAIN trucks : trucks'[k] = trucks[k]
      ]_vars

\* An AddTruck has succeeded on a registry that held another record, of
\* another cargo.
C18_Witness ==
    \E p \in Procs :
        /\ pc[p] = "AddUnlock"
        /\ ret[p] = Nil
        /\ Cardinality(DOMAIN trucks) = 2
        /\ \E k \in DOMAIN trucks : trucks[k].Cargo # cargo[p]

\* C19: in every reachable state the ID of each stored record is the key it
\* is stored under; and a step changes the cargo of a record that is present
\* before and after it only if the step is the body of a successful
\* UpdateTruckCargo of that id, which stores the cargo it was passed. The
\* body of an AddTruck, a GetTruck or a RemoveTruck, and of a call that
\* fails, leaves every record that stays in the registry as it was.
C19_RecordLifecycle ==
    /\ [](\A k \in DOMAIN trucks : trucks[k].ID = k)
    /\ [][\A k \in DOMAIN trucks \cap DOMAIN trucks' :
            trucks'[k].Cargo # trucks[k].Cargo
            => \E p \in Procs :
                  /\ Step(p, "UpdBody", "UpdUnlock")
                  /\ id[p] = k
                  /\ ret'[p] = Nil
                  /\ trucks'[k].Cargo = cargo[p]
          ]_vars
    /\ [][\A p \in Procs :
            ( /\ pc'[p] # pc[p]
              /\ \/ op'[p] \in { "AddTruck", "GetTruck", "RemoveTruck" }
                 \/ ( pc'[p] \in ResultPcs /\ ret'[p] # Nil ) )
            => \A k \in DOMAIN trucks \cap DOMAIN trucks' : trucks'[k] = trucks[k]
          ]_vars

\* A successful UpdateTruckCargo has changed the cargo of its record to 1
\* while another record keeps cargo 0.
C19_Witness ==
    \E p \in Procs :
        /\ pc[p] = "UpdUnlock"
        /\ ret[p] = Nil
        /\ cargo[p] = 1
        /\ trucks[id[p]] = Truck(id[p], 1)
        /\ \E k \in DOMAIN trucks \ { id[p] } : trucks[k] = Truck(k, 0)

----------------------------------------------------------------------------
(* The sequential registry: a plain map from id to cargo, one call at a    *)
(* time.                                                                   *)

SeqErr(o, m, i, c) ==
    IF i = EmptyString THEN ErrEmptyID
    ELSE IF o \in { "AddTruck", "UpdateTruckCargo" } /\ c < 0 THEN ErrInvalidCargo
    ELSE IF o = "AddTruck" /\ i \in DOMAIN m THEN ErrTruckExist
    ELSE IF o # "AddTruck" /\ i \notin DOMAIN m THEN ErrTruckNotFound
    ELSE Nil

SeqMap(o, m, i, c) ==
    IF SeqErr(o, m, i, c) # Nil \/ o = "GetTruck" THEN m
    ELSE IF o = "RemoveTruck" THEN [k \in DOMAIN m \ {i} |-> m[k]]
    ELSE [k \in DOMAIN m \cup {i} |-> IF k = i THEN c ELSE m[k]]

SeqValue(o, m, i, c) ==
    IF o = "GetTruck" /\ SeqErr(o, m, i, c) = Nil THEN Truck(i, m[i]) ELSE ZeroTruck

\* The map of the sequential registry after the calls that have taken effect
\* so far, in the order in which they took effect: what the history lastWrite
\* says of each id.
SeqState == [k \in { j \in Ids : lastWrite[j].present } |-> lastWrite[k].cargo]

\* The step at which the call of goroutine p takes effect: the body, under
\* the lock, or for a GetTruck or an UpdateTruckCargo that fails its
\* argument checks the step that makes them.
TakesEffect(p) ==
    \/ Step(p, "AddBody", "AddUnlock")
    \/ Step(p, "GetRead", "GetRUnlock")
    \/ Step(p, "UpdBody", "UpdUnlock")
    \/ Step(p, "RemBody", "RemUnlock")
    \/ Step(p, "idle", "done")

\* C20: linearizability. Every call takes effect in one step between its
\* invocation and its return, at most one call in each step; at that step it
\* gets the result, and has the effect, of the same call made on the
\* sequential registry that has run the calls which took effect before it;
\* no other step changes that registry or a result already got; and the
\* registry of the code always holds what the sequential one holds (an id
\* is in SeqState, with cargo lastWrite[id].cargo, exactly when
\* lastWrite[id].present). A GetTruck or UpdateTruckCargo that fails its
\* pre-lock argument checks takes effect at the check.
C20_Linearizable ==
    /\ [](/\ DOMAIN trucks \subseteq Ids
          /\ \A k \in Ids :
                IF lastWrite[k].present
                THEN k \in DOMAIN trucks /\ trucks[k] = Truck(k, lastWrite[k].cargo)
                ELSE k \notin DOMAIN trucks)
    /\ [][/\ \A p \in Procs :
              TakesEffect(p)
              => LET m == SeqState IN
                 /\ ret'[p] = SeqErr(op'[p], m, id'[p], cargo'[p])
                 /\ out'[p] = SeqValue(op'[p], m, id'[p], cargo'[p])
                 /\ SeqState' = SeqMap(op'[p], m, id'[p], cargo'[p])
                 /\ \A q \in Procs \ {p} : ~TakesEffect(q)
          /\ ( \A p \in Procs : ~TakesEffect(p) ) => lastWrite' = lastWrite
          /\ \A p \in Procs :
              ( pc[p] \in ResultPcs /\ pc'[p] # "idle" )
              => ( ret'[p] = ret[p] /\ out'[p] = out[p] )
          /\ \A p \in Procs :
              ( pc[p] = "idle" /\ pc'[p] # "idle" )
              => \/ Step(p, "idle", "done")
                 \/ pc'[p] \in { "AddLock", "GetRLock", "UpdLock", "RemLock" }
         ]_vars

\* An UpdateTruckCargo of a present id has failed its cargo check, outside
\* the lock, while an AddTruck of that id that has succeeded has not yet
\* released the lock.
C20_Witness ==
    \E p, q \in Procs :
        /\ pc[p] = "done"
        /\ op[p] = "UpdateTruckCargo"
        /\ ret[p] = ErrInvalidCargo
        /\ pc[q] = "AddUnlock"
        /\ ret[q] = Nil
        /\ id[q] = id[p]

====
